---- MODULE Spec2Model ----
(***************************************************************************)
(* external-IP-checker: two one-shot scripts that fetch the caller's      *)
(* external IP and alert through Pushover when it deviates from a          *)
(* baseline.                                                               *)
(*   app/check_ip_based_on_dns.py             baseline = DNS A-records     *)
(*   app/check_ip_based_on_previous_value.py  baseline = /config/saved_ip  *)
(* Each invocation is one process: __main__ constructs External_IP_Checker *)
(* (which loads the INI file) and calls run() once.  An external scheduler *)
(* starts the next process.                                                *)
(*                                                                         *)
(* Python strings that the code parses or compares (IP addresses, file     *)
(* contents) are sequences of one-character strings.  Configuration values *)
(* are only passed through and are TLA+ strings.                           *)
(***************************************************************************)
EXTENDS Integers, Sequences, FiniteSets, TLC

(***************************************************************************)
(* Bounds of the model.                                                    *)
(***************************************************************************)
\* processes the scheduler starts in one behaviour
MaxRuns == 2
\* A-records in one DNS answer
MaxRecords == 2
\* characters of the new content that can reach the saved-IP file before a
\* failing write gives up
MaxPartialWrite == 1

(***************************************************************************)
(* Python values.                                                          *)
(***************************************************************************)
\* Optional[T]: None, or a value wrapped in a one-element tuple
None == <<>>
Some(x) == <<x>>
\* a key (or its section) the INI file does not hold
Missing == "<missing>"

(***************************************************************************)
(* String helpers (str.split, str.partition, readline, rstrip).            *)
(***************************************************************************)
Digits == {"0", "1", "2", "3", "4", "5", "6", "7", "8", "9"}
HexDigits == Digits \cup {"a", "b", "c", "d", "e", "f", "A", "B", "C", "D", "E", "F"}

Contains(s, c) == \E i \in 1..Len(s) : s[i] = c

\* index of the first c in s, 0 when there is none
IndexOf(s, c) ==
    IF Contains(s, c) THEN CHOOSE i \in 1..Len(s) : s[i] = c /\ \A j \in 1..(i - 1) : s[j] # c
    ELSE 0

\* str.split(sep): always at least one part, parts may be empty
RECURSIVE Split(_, _)
Split(s, sep) ==
    LET i == IndexOf(s, sep)
    IN IF i = 0 THEN <<s>>
       ELSE <<SubSeq(s, 1, i - 1)>> \o Split(SubSeq(s, i + 1, Len(s)), sep)

\* int(octet_str, 10) for a string of ASCII digits
RECURSIVE DecValue(_)
DecValue(s) ==
    IF s = <<>> THEN 0
    ELSE 10 * DecValue(SubSeq(s, 1, Len(s) - 1))
         + (CHOOSE d \in 0..9 : <<"0", "1", "2", "3", "4", "5", "6", "7", "8", "9">>[d + 1] = s[Len(s)])

\* '%x' % n
RECURSIVE HexText(_)
HexText(n) ==
    LET d == <<"0", "1", "2", "3", "4", "5", "6", "7", "8", "9", "a", "b", "c", "d", "e", "f">>[(n % 16) + 1]
    IN IF n < 16 THEN <<d>> ELSE HexText(n \div 16) \o <<d>>

(***************************************************************************)
(* ipaddress.ip_address as is_valid_ip uses it: IPv4Address, then          *)
(* IPv6Address; ValueError when both reject the string.                    *)
(***************************************************************************)
\* IPv4Address._parse_octet without the range check: a plausible slip
OctetOkNoRange(o) ==
    /\ o # <<>>
    /\ \A i \in 1..Len(o) : o[i] \in Digits
    /\ Len(o) <= 3
    /\ ~(o # <<"0">> /\ o[1] = "0")

\* IPv4Address._parse_octet accepts o
OctetOk(o) ==
    /\ o # <<>>
    /\ \A i \in 1..Len(o) : o[i] \in Digits
    /\ Len(o) <= 3
    /\ ~(o # <<"0">> /\ o[1] = "0")
    /\ DecValue(o) <= 255

\* IPv4Address(s) does not raise
IPv4Ok(s) ==
    /\ ~Contains(s, "/")
    /\ s # <<>>
    /\ LET octets == Split(s, ".")
       IN /\ Len(octets) = 4
          /\ \A i \in 1..4 : OctetOk(octets[i])

\* IPv4Address(s)._ip
IPv4Int(s) ==
    LET octets == Split(s, ".")
    IN ((DecValue(octets[1]) * 256 + DecValue(octets[2])) * 256 + DecValue(octets[3])) * 256
       + DecValue(octets[4])

\* IPv6Address._parse_hextet accepts h (int('', 16) raises on the empty string)
HextetOk(h) ==
    /\ \A i \in 1..Len(h) : h[i] \in HexDigits
    /\ Len(h) <= 4
    /\ h # <<>>

\* IPv6Address._split_scope_id: <<address, ok>>
SplitScopeId(s) ==
    LET i == IndexOf(s, "%")
        scope == SubSeq(s, i + 1, Len(s))
    IN IF i = 0 THEN [addr |-> s, ok |-> TRUE]
       ELSE [addr |-> SubSeq(s, 1, i - 1), ok |-> scope # <<>> /\ ~Contains(scope, "%")]

\* IPv6Address._ip_int_from_string does not raise on the parts after the
\* embedded IPv4 address, if any, was replaced by its two hextets
IPv6PartsOk(parts) ==
    LET n == Len(parts)
        skips == {i \in 2..(n - 1) : parts[i] = <<>>}
    IN /\ n <= 9
       /\ Cardinality(skips) <= 1
       /\ IF skips # {}
          THEN LET skip == CHOOSE i \in skips : TRUE
                   hi0 == skip - 1
                   lo0 == n - skip
                   hi == IF parts[1] = <<>> THEN hi0 - 1 ELSE hi0
                   lo == IF parts[n] = <<>> THEN lo0 - 1 ELSE lo0
               IN /\ (parts[1] = <<>> => hi = 0)
                  /\ (parts[n] = <<>> => lo = 0)
                  /\ 8 - (hi + lo) >= 1
                  /\ \A i \in 1..hi : HextetOk(parts[i])
                  /\ \A i \in (n - lo + 1)..n : HextetOk(parts[i])
          ELSE /\ n = 8
               /\ \A i \in 1..n : HextetOk(parts[i])

\* IPv6Address(s) does not raise
IPv6Ok(s) ==
    /\ ~Contains(s, "/")
    /\ SplitScopeId(s).ok
    /\ LET a == SplitScopeId(s).addr
           parts == Split(a, ":")
           n == Len(parts)
       IN /\ a # <<>>
          /\ n >= 3
          /\ IF Contains(parts[n], ".")
             THEN /\ IPv4Ok(parts[n])
                  /\ IPv6PartsOk(SubSeq(parts, 1, n - 1)
                                 \o <<HexText((IPv4Int(parts[n]) \div 65536) % 65536),
                                      HexText(IPv4Int(parts[n]) % 65536)>>)
             ELSE IPv6PartsOk(parts)

is_valid_ip(address) == IPv4Ok(address) \/ IPv6Ok(address)


(***************************************************************************)
(* Inputs: what the environment can hand to one process.                   *)
(***************************************************************************)
\* text bodies https://api.ipify.org can answer with
IP_198_51_100_9 == <<"1", "9", "8", ".", "5", "1", ".", "1", "0", "0", ".", "9">>
IP_198_51_100_10 == <<"1", "9", "8", ".", "5", "1", ".", "1", "0", "0", ".", "1", "0">>
IP_203_0_113_5 == <<"2", "0", "3", ".", "0", ".", "1", "1", "3", ".", "5">>
IP_2001_db8__1 == <<"2", "0", "0", "1", ":", "d", "b", "8", ":", ":", "1">>
NotAnIp == <<"n", "o", "t", "-", "a", "n", "-", "i", "p">>
EmptyText == <<>>
Nines == <<"9", "9", "9", ".", "9", "9", "9", ".", "9", "9", "9", ".", "9", "9", "9">>

ValidCandidates == {IP_198_51_100_9, IP_198_51_100_10, IP_203_0_113_5, IP_2001_db8__1}
InvalidCandidates == {NotAnIp, EmptyText, Nines}
ExternalIPs == ValidCandidates \cup InvalidCandidates

\* A-record rdata: the four address bytes
ARecords == {<<203, 0, 113, 5>>, <<203, 0, 113, 9>>, <<198, 51, 100, 9>>}

\* the answers resolver.resolve can return: an RRset holds no duplicates and,
\* when it is returned at all, at least one record
AnswerSets ==
    {a \in UNION {[1..n -> ARecords] : n \in 1..MaxRecords} :
        \A i, j \in 1..Len(a) : i # j => a[i] # a[j]}

ResolveFailures == {"NXDOMAIN", "NoAnswer", "Exception"}

ResolveResults ==
    {[status |-> f, answers |-> <<>>] : f \in ResolveFailures}
    \cup {[status |-> "ok", answers |-> a] : a \in AnswerSets}

\* /config/check_ip_based_on_dns.ini as the process can find it
DnsIni(kind, url, user_key, token_api, sound) ==
    [kind |-> kind, URL |-> url, USER_KEY |-> user_key, TOKEN_API |-> token_api, SOUND |-> sound]

DnsIniFiles ==
    { DnsIni("absent", Missing, Missing, Missing, Missing),
      DnsIni("malformed", Missing, Missing, Missing, Missing),
      DnsIni("ok", "example.com", "ukey", "tok", "pushover"),
      DnsIni("ok", Missing, "ukey", "tok", "pushover"),
      DnsIni("ok", "example.com", Missing, "tok", "pushover"),
      DnsIni("ok", "example.com", "ukey", Missing, "pushover"),
      DnsIni("ok", "example.com", "ukey", "tok", Missing),
      DnsIni("ok", "example.com", Missing, Missing, Missing),
      DnsIni("ok", "", "ukey", "tok", "pushover"),
      DnsIni("ok", "example.com", "", "tok", "pushover") }

\* /config/check_ip_based_on_previous_value.ini as the process can find it
PrevIni(kind, user_key, token_api, sound) ==
    [kind |-> kind, USER_KEY |-> user_key, TOKEN_API |-> token_api, SOUND |-> sound]

PrevIniFiles ==
    { PrevIni("absent", Missing, Missing, Missing),
      PrevIni("malformed", Missing, Missing, Missing),
      PrevIni("ok", "ukey", "tok", "pushover"),
      PrevIni("ok", Missing, "tok", "pushover"),
      PrevIni("ok", "ukey", Missing, "pushover"),
      PrevIni("ok", "ukey", "tok", Missing),
      PrevIni("ok", Missing, Missing, Missing),
      PrevIni("ok", "ukey", "tok", "") }

\* /config/saved_ip.txt: None when absent, else its content and whether this
\* process may read it
SavedFile(content, readable) == Some([content |-> content, readable |-> readable])

InitialSavedFiles ==
    {None} \cup
    {SavedFile(c, r) : c \in {IP_198_51_100_9, IP_198_51_100_9 \o <<"\n">>, IP_198_51_100_10},
                       r \in BOOLEAN}


(***************************************************************************)
(* State.                                                                  *)
(***************************************************************************)
VARIABLES
    variant,        \* which script this deployment runs: "dns" or "prev"
    pc,             \* the process: "start", "loaded" (constructor returned), "exited"
    runs,           \* processes started so far
    self,           \* the External_IP_Checker instance's attributes
    exitCode,       \* the process's exit status, None while it runs
    example_copied, \* shutil.copyfile wrote CONFIG_FILE.example in this process
    saved_ip_file,  \* /config/saved_ip.txt
    net,            \* network operations of this process, in order
    sends,          \* send_message calls of this process, in order
    saves,          \* _save_ip calls of this process, in order
    log,            \* logger lines of this process, in order
    run,            \* run()'s locals and what it decided
    prev            \* the same of the previous process (persisted variant)

vars == <<variant, pc, runs, self, exitCode, example_copied, saved_ip_file,
          net, sends, saves, log, run, prev>>

LogLine(level, text, arg) == [level |-> level, text |-> text, arg |-> arg]

\* run() before its first statement
NoRun ==
    [external_ip |-> None, resolve |-> "none", answers |-> <<>>, saved_ip |-> None,
     decision |-> "NONE", send_raised |-> FALSE, save |-> "none", file_before |-> None]

NoPrev ==
    [external_ip |-> None, saved_ip |-> None, decision |-> "NONE", save |-> "none",
     wrote |-> FALSE, stale |-> TRUE]

\* __init__ before _load_config
DnsNewSelf ==
    [config |-> None, url |-> None, pushover_user_key |-> None,
     pushover_token_api |-> None, pushover_sound |-> None]

PrevNewSelf ==
    [config |-> None, pushover_user_key |-> None,
     pushover_token_api |-> None, pushover_sound |-> None]

NewSelf(v) == IF v = "dns" THEN DnsNewSelf ELSE PrevNewSelf

Init ==
    /\ variant \in {"dns", "prev"}
    /\ pc = "start"
    /\ runs = 1
    /\ self = NewSelf(variant)
    /\ exitCode = None
    /\ example_copied = FALSE
    /\ saved_ip_file \in (IF variant = "prev" THEN InitialSavedFiles ELSE {None})
    /\ net = <<>>
    /\ sends = <<>>
    /\ saves = <<>>
    /\ log = <<>>
    /\ run = NoRun
    /\ prev = NoPrev

(***************************************************************************)
(* _load_config.  The keys are read in source order; the first one the     *)
(* file lacks raises KeyError.  The result says how the constructor ends:  *)
(* "return", "sys.exit" (SystemExit with status 1) or "raise" (an          *)
(* exception that __main__ catches, logs and turns into sys.exit(1)).      *)
(***************************************************************************)
\* the keys the DNS script reads, with the attribute each is stored in;
\* here without SOUND: a plausible slip
DnsKeysNoSound ==
    << <<"URL", "url">>, <<"USER_KEY", "pushover_user_key">>,
       <<"TOKEN_API", "pushover_token_api">> >>

\* the keys the DNS script reads, with the attribute each is stored in
DnsKeys ==
    << <<"URL", "url">>, <<"USER_KEY", "pushover_user_key">>,
       <<"TOKEN_API", "pushover_token_api">>, <<"SOUND", "pushover_sound">> >>

\* the keys the persisted script reads, with the attribute each is stored in
PrevKeys ==
    << <<"USER_KEY", "pushover_user_key">>, <<"TOKEN_API", "pushover_token_api">>,
       <<"SOUND", "pushover_sound">> >>

\* index of the first key of keys that ini lacks, 0 when it holds them all
FirstMissing(keys, ini) ==
    IF \E i \in 1..Len(keys) : ini[keys[i][1]] = Missing
    THEN CHOOSE i \in 1..Len(keys) :
            /\ ini[keys[i][1]] = Missing
            /\ \A j \in 1..(i - 1) : ini[keys[j][1]] # Missing
    ELSE 0

\* the attributes after the assignments of keys[1..n]
RECURSIVE AssignKeys(_, _, _, _)
AssignKeys(obj, keys, ini, n) ==
    IF n = 0 THEN obj
    ELSE [AssignKeys(obj, keys, ini, n - 1) EXCEPT ![keys[n][2]] = Some(ini[keys[n][1]])]

_load_config(obj, keys, ini, example_ok) ==
    IF ini.kind = "absent"
    THEN [self |-> obj,
          log |-> <<LogLine("ERROR", "Can't open file, creating example INI file.", <<>>)>>
                  \o (IF example_ok THEN <<>> ELSE <<LogLine("ERROR", "Fatal error", <<>>)>>),
          copied |-> example_ok,
          exit |-> IF example_ok THEN "sys.exit" ELSE "raise"]
    ELSE IF ini.kind = "malformed"
    THEN [self |-> [obj EXCEPT !.config = Some(ini)],
          log |-> <<LogLine("ERROR", "Fatal error", <<>>)>>,
          copied |-> FALSE,
          exit |-> "raise"]
    ELSE LET m == FirstMissing(keys, ini)
         IN IF m # 0
            THEN [self |-> AssignKeys([obj EXCEPT !.config = Some(ini)], keys, ini, m - 1),
                  log |-> <<LogLine("ERROR", "Missing key in INI file", <<>>)>>,
                  copied |-> FALSE,
                  exit |-> "sys.exit"]
            ELSE [self |-> AssignKeys([obj EXCEPT !.config = Some(ini)], keys, ini, Len(keys)),
                  log |-> <<>>,
                  copied |-> FALSE,
                  exit |-> "return"]

\* __main__ around the constructor: a constructor that returns lets run()
\* start; SystemExit and a caught exception both end the process with status 1
Constructed(r) ==
    /\ self' = r.self
    /\ log' = log \o r.log
    /\ example_copied' = r.copied
    /\ pc' = IF r.exit = "return" THEN "loaded" ELSE "exited"
    /\ exitCode' = IF r.exit = "return" THEN None ELSE Some(1)
    /\ UNCHANGED <<variant, runs, saved_ip_file, net, sends, saves, run, prev>>

DnsLoadConfig ==
    /\ variant = "dns"
    /\ pc = "start"
    /\ \E ini \in DnsIniFiles, example_ok \in BOOLEAN :
          Constructed(_load_config(self, DnsKeys, ini, example_ok))

PrevLoadConfig ==
    /\ variant = "prev"
    /\ pc = "start"
    /\ \E ini \in PrevIniFiles, example_ok \in BOOLEAN :
          Constructed(_load_config(self, PrevKeys, ini, example_ok))


(***************************************************************************)
(* Pieces shared by both run() methods.                                    *)
(***************************************************************************)
\* one send_message call: the f-string as its lines, label and interpolated value
Notification(message, sound) == [message |-> message, sound |-> sound]

\* the outer handler of run(): except Exception, one error line, run() returns
UnexpectedError == LogLine("ERROR", "Unexpected error in run", <<>>)

\* str(n) for n >= 0
RECURSIVE DecText(_)
DecText(n) ==
    LET d == <<"0", "1", "2", "3", "4", "5", "6", "7", "8", "9">>[(n % 10) + 1]
    IN IF n < 10 THEN <<d>> ELSE DecText(n \div 10) \o <<d>>

(***************************************************************************)
(* check_ip_based_on_dns.py: run().                                        *)
(***************************************************************************)
\* answer.to_text() of an A record: the dotted quad
to_text(rdata) ==
    DecText(rdata[1]) \o <<".">> \o DecText(rdata[2]) \o <<".">>
    \o DecText(rdata[3]) \o <<".">> \o DecText(rdata[4])

\* the handlers of the three resolution failures, here ending the process
\* the way _load_config's handlers do: a plausible slip
DnsResolveHandlerExits(url, status) ==
    [log |-> <<LogLine("ERROR",
                       CASE status = "NXDOMAIN" -> "Domain does not exist"
                         [] status = "NoAnswer" -> "No A records found"
                         [] OTHER -> "DNS resolution failed", <<>>)>>,
     exit |-> "sys.exit"]

\* the handlers of the three resolution failures: one error line, then return
DnsResolveHandler(url, status) ==
    [log |-> <<LogLine("ERROR",
                       CASE status = "NXDOMAIN" -> "Domain does not exist"
                         [] status = "NoAnswer" -> "No A records found"
                         [] OTHER -> "DNS resolution failed", <<>>)>>,
     exit |-> "return"]

\* the first loop compared with the first answer only: a plausible slip
DnsMatchIndexFirstOnly(answers, external_ip) ==
    IF to_text(answers[1]) = external_ip THEN 1 ELSE 0

\* the first loop: index of the first answer whose text equals external_ip,
\* 0 when the loop ends with matched = False
DnsMatchIndex(answers, external_ip) ==
    IF \E i \in 1..Len(answers) : to_text(answers[i]) = external_ip
    THEN CHOOSE i \in 1..Len(answers) :
            /\ to_text(answers[i]) = external_ip
            /\ \A j \in 1..(i - 1) : to_text(answers[j]) # external_ip
    ELSE 0

DnsMismatchMessage(url, external_ip, dns_ip) ==
    << [label |-> "URL = ", value |-> url],
       [label |-> "External IP = ", value |-> external_ip],
       [label |-> "A-record = ", value |-> dns_ip] >>

\* the second loop.  fail_at = 0: every send_message returns; fail_at = k: the
\* k-th call raises, which leaves the loop for the outer handler
DnsNotifyAll(url, sound, external_ip, answers, fail_at) ==
    LET called == IF fail_at = 0 THEN Len(answers) ELSE fail_at
        logged == IF fail_at = 0 THEN Len(answers) ELSE fail_at - 1
    IN [sends |-> [i \in 1..called |->
                      Notification(DnsMismatchMessage(url, external_ip, to_text(answers[i])),
                                   sound)],
        log |-> [i \in 1..logged |-> LogLine("ERROR", "Mismatch!", to_text(answers[i]))]
                \o (IF fail_at = 0 THEN <<>> ELSE <<UnexpectedError>>),
        raised |-> fail_at # 0]

\* run() of the DNS script.  setup_ok: the Pushover objects were built;
\* fetch: the body ipify answered with, None when get() raised;
\* res: what resolver.resolve did; fail_at: see DnsNotifyAll
dns_run(obj, setup_ok, fetch, res, fail_at) ==
    LET url == obj.url[1]
        base == [net |-> <<"pushover setup">>, sends |-> <<>>, log |-> <<>>,
                 exit |-> "return", run |-> NoRun]
    IN IF ~setup_ok
       THEN [base EXCEPT !.log = <<UnexpectedError>>]
       ELSE IF fetch = None
       THEN [base EXCEPT !.net = @ \o <<"ipify">>,
                         !.log = <<LogLine("ERROR", "Failed to fetch external IP", <<>>)>>]
       ELSE IF res.status # "ok"
       THEN [base EXCEPT !.net = @ \o <<"ipify", "dns">>,
                         !.log = DnsResolveHandler(url, res.status).log,
                         !.exit = DnsResolveHandler(url, res.status).exit,
                         !.run = [NoRun EXCEPT !.external_ip = fetch,
                                               !.resolve = res.status]]
       ELSE LET external_ip == fetch[1]
                m == DnsMatchIndex(res.answers, external_ip)
                n == DnsNotifyAll(url, obj.pushover_sound[1], external_ip, res.answers, fail_at)
                locals == [NoRun EXCEPT !.external_ip = fetch,
                                        !.resolve = "ok",
                                        !.answers = [i \in 1..Len(res.answers) |->
                                                        to_text(res.answers[i])]]
            IN IF m # 0
               THEN [base EXCEPT !.net = @ \o <<"ipify", "dns">>,
                                 !.log = <<LogLine("INFO", "Matches!", to_text(res.answers[m]))>>,
                                 !.run = [locals EXCEPT !.decision = "MATCH"]]
               ELSE [base EXCEPT !.net = @ \o <<"ipify", "dns">>
                                         \o [i \in 1..Len(n.sends) |-> "pushover send"],
                                 !.sends = n.sends,
                                 !.log = n.log,
                                 !.run = [locals EXCEPT !.decision = "MISMATCH",
                                                        !.send_raised = n.raised]]

\* __main__ after run(): a run() that returns ends the process with status 0
DnsRun ==
    /\ variant = "dns"
    /\ pc = "loaded"
    /\ \E setup_ok \in BOOLEAN, fetch \in {None} \cup {Some(ip) : ip \in ExternalIPs},
          res \in ResolveResults :
          \E fail_at \in 0..Len(res.answers) :
             LET r == dns_run(self, setup_ok, fetch, res, fail_at)
             IN /\ net' = net \o r.net
                /\ sends' = sends \o r.sends
                /\ log' = log \o r.log
                /\ run' = r.run
                /\ exitCode' = IF r.exit = "return" THEN Some(0) ELSE Some(1)
    /\ pc' = "exited"
    /\ UNCHANGED <<variant, runs, self, example_copied, saved_ip_file, saves, prev>>


(***************************************************************************)
(* check_ip_based_on_previous_value.py: the saved-IP file and run().       *)
(***************************************************************************)
\* file.readline(): up to and including the first newline
readline(content) ==
    LET i == IndexOf(content, "\n")
    IN IF i = 0 THEN content ELSE SubSeq(content, 1, i)

\* str.rstrip('\n')
RECURSIVE rstrip_newline(_)
rstrip_newline(s) ==
    IF s # <<>> /\ s[Len(s)] = "\n" THEN rstrip_newline(SubSeq(s, 1, Len(s) - 1)) ELSE s

\* _read_saved_ip that also answers None for an empty first line: a plausible slip
ReadSavedIpEmptyIsNone(file) ==
    IF file = None \/ ~file[1].readable \/ rstrip_newline(readline(file[1].content)) = <<>>
    THEN None
    ELSE Some(rstrip_newline(readline(file[1].content)))

\* open() raises for an absent file and for one this process may not read;
\* both are caught and answered with None
_read_saved_ip(file) ==
    IF file = None \/ ~file[1].readable
    THEN None
    ELSE Some(rstrip_newline(readline(file[1].content)))

\* the file after open(..., "w") succeeded and content reached it; open creates
\* an absent file (readable by its creator) and keeps an existing file's mode
Written(file, content) ==
    SavedFile(content, IF file = None THEN TRUE ELSE file[1].readable)

\* _save_ip: every way the call can end.  It returns True with the file
\* holding exactly ip_address.  It returns False when open() raised, the file
\* untouched, and when open() had truncated the file and the write or the
\* close raised, the file left with a proper prefix of ip_address (of at most
\* MaxPartialWrite characters here).
_save_ip(file, ip_address) ==
    {[file |-> Written(file, ip_address), ok |-> TRUE, log |-> LogLine("INFO", "External IP saved successfully.", <<>>)]}
    \cup {[file |-> file, ok |-> FALSE, log |-> LogLine("ERROR", "An error occurred while saving the file", <<>>)]}
    \cup {[file |-> Written(file, SubSeq(ip_address, 1, k)), ok |-> FALSE,
           log |-> LogLine("ERROR", "An error occurred while saving the file", <<>>)] :
             k \in {j \in 0..MaxPartialWrite : j < Len(ip_address)}}

SavedMessage(external_ip) ==
    << [label |-> "External IP has been saved!", value |-> <<>>],
       [label |-> "Current IP = ", value |-> external_ip] >>

ChangedMessage(saved_ip, external_ip) ==
    << [label |-> "External IP has changed!", value |-> <<>>],
       [label |-> "Previous IP = ", value |-> saved_ip],
       [label |-> "Current IP = ", value |-> external_ip] >>

\* the first-run branch announcing the save whatever _save_ip returned: a plausible slip
BootstrapNotifiesAlways(saved) == TRUE

\* the first-run branch: send_message only if _save_ip returned True
BootstrapNotifies(saved) == saved

\* the comparison with == for !=: a plausible slip
PrevCompareInverted(saved_ip, external_ip) ==
    IF saved_ip = external_ip THEN "MISMATCH" ELSE "MATCH"

\* if saved_ip != external_ip: ... else: ...
PrevCompare(saved_ip, external_ip) ==
    IF saved_ip # external_ip THEN "MISMATCH" ELSE "MATCH"

\* run() of the persisted script.  setup_ok, fetch: as in dns_run; send_ok:
\* send_message returns (else it raises, which the outer handler catches);
\* o: how _save_ip ends if it is called
prev_run(obj, file, setup_ok, fetch, send_ok, o) ==
    LET sound == obj.pushover_sound[1]
        base == [net |-> <<"pushover setup">>, sends |-> <<>>, saves |-> <<>>, log |-> <<>>,
                 exit |-> "return", file |-> file,
                 run |-> [NoRun EXCEPT !.file_before = file]]
    IN IF ~setup_ok
       THEN [base EXCEPT !.log = <<UnexpectedError>>]
       ELSE IF fetch = None
       THEN [base EXCEPT !.net = @ \o <<"ipify">>,
                         !.log = <<LogLine("ERROR", "Failed to fetch external IP", <<>>)>>]
       ELSE IF ~is_valid_ip(fetch[1])
       THEN [base EXCEPT !.net = @ \o <<"ipify">>,
                         !.log = <<LogLine("ERROR", "Web service did not respond with a valid IP address!", <<>>)>>,
                         !.run.external_ip = fetch]
       ELSE LET external_ip == fetch[1]
                saved_ip == _read_saved_ip(file)
                locals == [base.run EXCEPT !.external_ip = fetch, !.saved_ip = saved_ip]
            IN IF saved_ip = None
               THEN [base EXCEPT
                       !.net = @ \o <<"ipify">>
                               \o (IF BootstrapNotifies(o.ok) THEN <<"pushover send">> ELSE <<>>),
                       !.saves = <<external_ip>>,
                       !.file = o.file,
                       !.sends = IF BootstrapNotifies(o.ok)
                                 THEN <<Notification(SavedMessage(external_ip), sound)>>
                                 ELSE <<>>,
                       !.log = <<o.log>> \o (IF BootstrapNotifies(o.ok) /\ ~send_ok
                                             THEN <<UnexpectedError>> ELSE <<>>),
                       !.run = [locals EXCEPT
                                  !.decision = "BOOTSTRAP",
                                  !.save = IF o.ok THEN "ok" ELSE "failed",
                                  !.send_raised = BootstrapNotifies(o.ok) /\ ~send_ok]]
               ELSE IF PrevCompare(saved_ip[1], external_ip) = "MISMATCH"
               THEN IF send_ok
                    THEN [base EXCEPT
                            !.net = @ \o <<"ipify", "pushover send">>,
                            !.sends = <<Notification(ChangedMessage(saved_ip[1], external_ip), sound)>>,
                            !.saves = <<external_ip>>,
                            !.file = o.file,
                            !.log = <<LogLine("ERROR", "Mismatch!", external_ip), o.log>>,
                            !.run = [locals EXCEPT !.decision = "MISMATCH",
                                                   !.save = IF o.ok THEN "ok" ELSE "failed"]]
                    ELSE [base EXCEPT
                            !.net = @ \o <<"ipify", "pushover send">>,
                            !.sends = <<Notification(ChangedMessage(saved_ip[1], external_ip), sound)>>,
                            !.log = <<UnexpectedError>>,
                            !.run = [locals EXCEPT !.decision = "MISMATCH",
                                                   !.send_raised = TRUE]]
               ELSE [base EXCEPT
                       !.net = @ \o <<"ipify">>,
                       !.log = <<LogLine("INFO", "Match!", external_ip)>>,
                       !.run = [locals EXCEPT !.decision = "MATCH"]]

\* __main__ after run(): a run() that returns ends the process with status 0
PrevRun ==
    /\ variant = "prev"
    /\ pc = "loaded"
    /\ \E setup_ok \in BOOLEAN, send_ok \in BOOLEAN,
          fetch \in {None} \cup {Some(ip) : ip \in ExternalIPs} :
          \E o \in _save_ip(saved_ip_file, IF fetch = None THEN <<>> ELSE fetch[1]) :
             LET r == prev_run(self, saved_ip_file, setup_ok, fetch, send_ok, o)
             IN /\ net' = net \o r.net
                /\ sends' = sends \o r.sends
                /\ saves' = saves \o r.saves
                /\ log' = log \o r.log
                /\ saved_ip_file' = r.file
                /\ run' = r.run
                /\ exitCode' = IF r.exit = "return" THEN Some(0) ELSE Some(1)
    /\ pc' = "exited"
    /\ UNCHANGED <<variant, runs, self, example_copied, prev>>

(***************************************************************************)
(* The external scheduler starts the next process.  Nothing but the saved- *)
(* IP file outlives a process; prev keeps what the claims about two        *)
(* successive runs of the persisted script read.                           *)
(***************************************************************************)
Schedule ==
    /\ pc = "exited"
    /\ runs < MaxRuns
    /\ runs' = runs + 1
    /\ pc' = "start"
    /\ self' = NewSelf(variant)
    /\ exitCode' = None
    /\ example_copied' = FALSE
    /\ net' = <<>>
    /\ sends' = <<>>
    /\ saves' = <<>>
    /\ log' = <<>>
    /\ run' = NoRun
    /\ prev' = IF variant = "prev"
               THEN [external_ip |-> run.external_ip, saved_ip |-> run.saved_ip,
                     decision |-> run.decision, save |-> run.save,
                     wrote |-> saves # <<>>,
                     stale |-> saved_ip_file = run.file_before]
               ELSE NoPrev
    /\ UNCHANGED <<variant, saved_ip_file>>

Next ==
    \/ DnsLoadConfig
    \/ PrevLoadConfig
    \/ DnsRun
    \/ PrevRun
    \/ Schedule

Spec == Init /\ [][Next]_vars


(***************************************************************************)
(* Properties.  A process that has exited shows everything its run did:    *)
(* sends, saves, log and net hold this process's calls only.               *)
(***************************************************************************)
Exited == pc = "exited"

\* the message holds a line with this label and this interpolated value
Cites(message, label, value) ==
    \E i \in 1..Len(message) : message[i].label = label /\ message[i].value = value

IsMismatchLine(l) == l.level = "ERROR" /\ l.text = "Mismatch!"

\* the saved-IP file holds exactly this text
FileHolds(text) == saved_ip_file # None /\ saved_ip_file[1].content = text

\* run() fetched a candidate and resolved a non-empty answer that does not hold it
DnsMismatchCase ==
    /\ Exited
    /\ variant = "dns"
    /\ run.external_ip # None
    /\ run.resolve = "ok"
    /\ \A i \in 1..Len(run.answers) : run.answers[i] # run.external_ip[1]

\* run() loaded a baseline that differs from the valid candidate it fetched
PrevMismatchCase ==
    /\ Exited
    /\ variant = "prev"
    /\ run.external_ip # None
    /\ run.saved_ip # None
    /\ run.saved_ip # run.external_ip

\* C1: DNS variant.  In every run whose candidate equals no element of the
\* non-empty resolved A-record set of size N, send_message is called exactly N
\* times, the i-th call citing the i-th record as the A-record, and one
\* "Mismatch!" error line is logged per record, in DNS response order.
C1_DnsMismatchNotifiesEveryRecord ==
    DnsMismatchCase =>
        /\ Len(sends) = Len(run.answers)
        /\ \A i \in 1..Len(sends) :
              /\ Cites(sends[i].message, "A-record = ", run.answers[i])
              /\ Cites(sends[i].message, "External IP = ", run.external_ip[1])
        /\ LET lines == SelectSeq(log, IsMismatchLine)
           IN /\ Len(lines) = Len(run.answers)
              /\ \A i \in 1..Len(lines) : lines[i].arg = run.answers[i]

\* C2: persisted variant, MISMATCH.  When a baseline is present and differs
\* from the valid candidate, the run sends exactly one notification naming the
\* previous and the current IP and then calls save(candidate); when that save
\* reports success the persisted baseline equals the candidate after the run.
\* (What a failing save leaves behind is C10's subject.)
C2_MismatchNotifiesThenSaves ==
    PrevMismatchCase =>
        /\ Len(sends) = 1
        /\ Cites(sends[1].message, "Previous IP = ", run.saved_ip[1])
        /\ Cites(sends[1].message, "Current IP = ", run.external_ip[1])
        /\ saves = <<run.external_ip[1]>>
        /\ (run.save = "ok" => FileHolds(run.external_ip[1]))

\* C3: a send_message that raises is logged only and blocks nothing that
\* follows it: in the persisted variant's MISMATCH branch save(candidate) is
\* called whether the send returned or raised.
C3_NotifyFailureNeverBlocksSave ==
    /\ (PrevMismatchCase /\ run.send_raised => UnexpectedError \in {log[i] : i \in 1..Len(log)})
    /\ (PrevMismatchCase => Len(saves) = 1 /\ saves[1] = run.external_ip[1])

\* a first-ever run of the persisted variant that fetched a valid candidate
BootstrapCase ==
    /\ Exited
    /\ variant = "prev"
    /\ run.file_before = None
    /\ run.external_ip # None
    /\ run.external_ip[1] \in ValidCandidates

\* C4 as claimed: a first-ever run with a valid candidate performs exactly one
\* save call (of the candidate) and exactly one Notifier call announcing the
\* saved IP, and afterwards the file contains the candidate.
C4_BootstrapAlwaysSavesAndNotifies ==
    BootstrapCase =>
        /\ saves = <<run.external_ip[1]>>
        /\ Len(sends) = 1
        /\ sends[1].message = SavedMessage(run.external_ip[1])
        /\ FileHolds(run.external_ip[1])

\* C4 as amended: a first-ever run with a valid candidate performs exactly one
\* save call, of the candidate.  If the save succeeds, exactly one notification
\* announces the saved IP and the file contains the candidate; if the save
\* fails, no notification is sent and the file does not contain the candidate.
C4_BootstrapNotifiesOnlyAfterSave ==
    BootstrapCase =>
        /\ saves = <<run.external_ip[1]>>
        /\ run.save \in {"ok", "failed"}
        /\ (run.save = "ok" =>
              /\ Len(sends) = 1
              /\ sends[1].message = SavedMessage(run.external_ip[1])
              /\ Cites(sends[1].message, "Current IP = ", run.external_ip[1])
              /\ FileHolds(run.external_ip[1]))
        /\ (run.save = "failed" =>
              /\ sends = <<>>
              /\ ~FileHolds(run.external_ip[1]))

C4_Witness ==
    /\ BootstrapCase
    /\ run.save = "ok"
    /\ Len(sends) = 1
    /\ FileHolds(IP_198_51_100_9)

\* C5: persisted variant.  For every candidate that is not a syntactically
\* valid IPv4 or IPv6 address ("not-an-ip", the empty string,
\* "999.999.999.999") the run ends with no save call and no send, the saved-IP
\* file as it was, whether or not a baseline exists.
C5_InvalidCandidateChangesNothing ==
    (/\ Exited
     /\ variant = "prev"
     /\ run.external_ip # None
     /\ run.external_ip[1] \in InvalidCandidates)
    => /\ saves = <<>>
       /\ sends = <<>>
       /\ saved_ip_file = run.file_before
       /\ run.decision = "NONE"
       /\ run.saved_ip = None
       /\ log[Len(log)].level = "ERROR"

C5_Witness ==
    /\ Exited
    /\ variant = "prev"
    /\ run.external_ip = Some(Nines)
    /\ run.file_before # None
    /\ saves = <<>>

\* the candidate equals an element of the baseline this run obtained
EqualCase ==
    /\ Exited
    /\ run.external_ip # None
    /\ \/ variant = "dns" /\ \E i \in 1..Len(run.answers) : run.answers[i] = run.external_ip[1]
       \/ variant = "prev" /\ run.saved_ip = run.external_ip

\* C6: in both variants, whenever the candidate is equal (exact string
\* equality) to some baseline element (any resolved A-record; the persisted
\* value), the outcome is MATCH, send_message is never called and, in the
\* persisted variant, nothing is written to the baseline.
C6_EqualCandidateMatchesSilently ==
    EqualCase =>
        /\ run.decision = "MATCH"
        /\ sends = <<>>
        /\ saves = <<>>
        /\ saved_ip_file = run.file_before
        /\ log[Len(log)].level = "INFO"

C6_Witness ==
    /\ EqualCase
    /\ variant = "dns"
    /\ Len(run.answers) = 2
    /\ run.answers[2] = run.external_ip[1]
    /\ run.decision = "MATCH"

\* the fields the variant requires
RequiredFields == IF variant = "dns" THEN {"URL", "USER_KEY", "TOKEN_API", "SOUND"}
                  ELSE {"USER_KEY", "TOKEN_API", "SOUND"}

\* the INI file this process read holds every required field
ConfigPresent ==
    /\ self.config # None
    /\ self.config[1].kind = "ok"
    /\ \A k \in RequiredFields : self.config[1][k] # Missing
    /\ self.pushover_user_key = Some(self.config[1].USER_KEY)
    /\ self.pushover_token_api = Some(self.config[1].TOKEN_API)
    /\ self.pushover_sound = Some(self.config[1].SOUND)
    /\ (variant = "dns" => self.url = Some(self.config[1].URL))

\* a process that is past _load_config, or that touched the network
PastLoad == pc = "loaded" \/ exitCode = Some(0) \/ net # <<>> \/ sends # <<>>

\* a process that ended in _load_config
AbortedInLoad == Exited /\ ~ConfigPresent

\* C7 as claimed: after config load every required field is present and
\* non-empty; otherwise the run is aborted with a non-zero exit before any
\* network activity.
C7_LoadedConfigPresentAndNonEmpty ==
    /\ (PastLoad => ConfigPresent /\ \A k \in RequiredFields : self.config[1][k] # "")
    /\ (AbortedInLoad => exitCode = Some(1) /\ net = <<>> /\ sends = <<>>)

\* C7 as amended: after config load every required field is present (its value
\* may be empty); otherwise the run is aborted with a non-zero exit before any
\* network activity.
C7_LoadedConfigPresent ==
    /\ (PastLoad => ConfigPresent)
    /\ (AbortedInLoad => exitCode = Some(1) /\ net = <<>> /\ sends = <<>>)

C7_Witness ==
    /\ variant = "dns"
    /\ Exited
    /\ exitCode = Some(0)
    /\ ConfigPresent
    /\ self.config[1].URL = ""
    /\ net # <<>>

\* two successive runs of the persisted variant, the first with a baseline
\* equal to its candidate, the second with the same candidate
UnchangedTwiceCase ==
    /\ Exited
    /\ variant = "prev"
    /\ prev.external_ip # None
    /\ prev.saved_ip = prev.external_ip
    /\ run.external_ip = prev.external_ip

\* C8: running the persisted variant twice in succession with an unchanged
\* candidate produces MATCH on both runs and no storage write on either run.
C8_UnchangedCandidateIsIdempotent ==
    UnchangedTwiceCase =>
        /\ prev.decision = "MATCH"
        /\ run.decision = "MATCH"
        /\ ~prev.wrote
        /\ prev.stale
        /\ saves = <<>>
        /\ saved_ip_file = run.file_before
        /\ run.saved_ip = prev.saved_ip

C8_Witness ==
    /\ UnchangedTwiceCase
    /\ runs = 2
    /\ run.decision = "MATCH"
    /\ run.file_before = SavedFile(IP_198_51_100_9 \o <<"\n">>, TRUE)

\* C9: DNS variant.  Each of the three resolution failures (domain not found,
\* no A-records, any other resolution error) ends the run with an error line
\* and no send_message call, and the process exits with status 0.
C9_ResolutionFailureIsRecoverable ==
    (Exited /\ variant = "dns" /\ run.resolve \in ResolveFailures) =>
        /\ sends = <<>>
        /\ exitCode = Some(0)
        /\ run.decision = "NONE"
        /\ Len(log) = 1
        /\ log[1].level = "ERROR"

C9_Witness ==
    /\ Exited
    /\ variant = "dns"
    /\ run.resolve = "NXDOMAIN"
    /\ exitCode = Some(0)

\* this run decided MISMATCH and its save failed
FailedSaveCase == PrevMismatchCase /\ run.save = "failed"

\* the previous run decided MISMATCH with a failed save, and this run fetched
\* the same candidate
AfterFailedSaveCase ==
    /\ Exited
    /\ variant = "prev"
    /\ prev.saved_ip # None
    /\ prev.saved_ip # prev.external_ip
    /\ prev.save = "failed"
    /\ run.external_ip = prev.external_ip

\* text is a proper prefix of full
ProperPrefix(text, full) == Len(text) < Len(full) /\ text = SubSeq(full, 1, Len(text))

\* C10 as claimed: if save(candidate) fails during a MISMATCH run, the
\* mismatch notification has already been sent in that run and the baseline is
\* left at its stale value, so the next run with the same candidate again
\* decides MISMATCH against the stale baseline and sends the mismatch
\* notification again.
C10_FailedSaveLeavesStaleBaseline ==
    /\ (FailedSaveCase =>
          /\ Len(sends) = 1
          /\ ~run.send_raised
          /\ saved_ip_file = run.file_before)
    /\ (AfterFailedSaveCase =>
          /\ run.decision = "MISMATCH"
          /\ run.saved_ip = prev.saved_ip
          /\ Len(sends) = 1
          /\ sends[1].message = ChangedMessage(prev.saved_ip[1], run.external_ip[1]))

\* C10 as amended: if save(candidate) fails during a MISMATCH run, the
\* mismatch notification has already been sent in that run and the baseline
\* file is left either at its stale value or truncated to a proper prefix of
\* the candidate; either way the next run with the same candidate again
\* decides MISMATCH, against what the file then holds (the stale baseline when
\* the file was left untouched), and sends the mismatch notification again.
C10_FailedSaveIsNotifiedAgain ==
    /\ (FailedSaveCase =>
          /\ Len(sends) = 1
          /\ ~run.send_raised
          /\ sends[1].message = ChangedMessage(run.saved_ip[1], run.external_ip[1])
          /\ \/ saved_ip_file = run.file_before
             \/ /\ saved_ip_file # None
                /\ ProperPrefix(saved_ip_file[1].content, run.external_ip[1]))
    /\ (AfterFailedSaveCase =>
          /\ run.decision = "MISMATCH"
          /\ run.saved_ip # None
          /\ (prev.stale => run.saved_ip = prev.saved_ip)
          /\ Len(sends) = 1
          /\ sends[1].message = ChangedMessage(run.saved_ip[1], run.external_ip[1])
          /\ Cites(sends[1].message, "Current IP = ", prev.external_ip[1]))

C10_Witness ==
    /\ AfterFailedSaveCase
    /\ ~prev.stale
    /\ run.saved_ip = Some(<<>>)
    /\ run.decision = "MISMATCH"
    /\ Len(sends) = 1

====
